---- MODULE Spec2Model ----
(***************************************************************************)
(* Model of gitstatus (status.go): Status.parsePorcelain reads a           *)
(* NUL-delimited "git status --porcelain=2 --branch -z" stream through a   *)
(* bufio.Scanner whose split function is scanNilBytes, and dispatches each *)
(* record on its first rune; '#' records go to Status.parseHeader.         *)
(*                                                                         *)
(* A Go string is modelled as the sequence of its bytes, each byte a       *)
(* one-character TLA+ string; the NUL byte is the string NUL.              *)
(***************************************************************************)
EXTENDS Integers, Sequences, FiniteSets, TLC

\* ------------------------------------------------------------------ bounds
\* Largest number of NUL-terminated records in an input stream.
MaxRecords == 3

\* ----------------------------------------------------------------- strings
NUL == "NUL"

Digits == {"0","1","2","3","4","5","6","7","8","9"}

LowerAlnum == Digits \cup {"a","b","c","d","e","f","g","h","i","j","k","l","m",
                           "n","o","p","q","r","s","t","u","v","w","x","y","z"}

\* The regexp metacharacter '.' inside a pattern: any byte but line feed.
Dot == "ANY"

\* "# branch" followed by an unescaped '.', the start of all four patterns.
HashBranch == <<"#"," ","b","r","a","n","c","h",Dot>>

Drop(s, n) == SubSeq(s, n + 1, Len(s))

AllIn(s, S) == \A i \in 1..Len(s) : s[i] \in S

NoLineFeed(s) == \A i \in 1..Len(s) : s[i] # "\n"

\* pat is a literal pattern anchored at the start of line; Dot matches any
\* byte but line feed.
PrefixMatches(line, pat) ==
    /\ Len(line) >= Len(pat)
    /\ \A i \in 1..Len(pat) :
          IF pat[i] = Dot THEN line[i] # "\n" ELSE line[i] = pat[i]

\* -------------------------------------------------------- error values
NoErr == "nil"

ErrNoNul == "last line doesn't end with a null byte"

ErrABSyntax == "error parsing branch.ab: invalid syntax"

ErrABRange == "error parsing branch.ab: value out of range"

\* --------------------------------------------------- header patterns
\* ^# branch.oid ([a-z0-9]+|\(initial\))$
OidPat == HashBranch \o <<"o","i","d"," ">>

Initial == <<"(","i","n","i","t","i","a","l",")">>

branchOID(line) ==
    LET g == Drop(line, Len(OidPat))
        ok == /\ PrefixMatches(line, OidPat)
              /\ \/ (g # <<>> /\ AllIn(g, LowerAlnum))
                 \/ g = Initial
    IN  IF ok THEN <<line, g>> ELSE <<>>

\* ^# branch.head (.*|\(detached\))$
HeadPat == HashBranch \o <<"h","e","a","d"," ">>

Detached == <<"(","d","e","t","a","c","h","e","d",")">>

branchHEAD(line) ==
    LET g == Drop(line, Len(HeadPat))
        ok == PrefixMatches(line, HeadPat) /\ NoLineFeed(g)
    IN  IF ok THEN <<line, g>> ELSE <<>>

\* ^# branch.upstream (.+)$
UpstreamPat == HashBranch \o <<"u","p","s","t","r","e","a","m"," ">>

branchUpstream(line) ==
    LET g == Drop(line, Len(UpstreamPat))
        ok == PrefixMatches(line, UpstreamPat) /\ g # <<>> /\ NoLineFeed(g)
    IN  IF ok THEN <<line, g>> ELSE <<>>

\* ^# branch.ab \+([0-9]+)* \-([0-9]+)*$
ABPat == HashBranch \o <<"a","b"," ","+">>

\* Length of the longest prefix of s made of digits.
RECURSIVE DigitRun(_)
DigitRun(s) ==
    IF s # <<>> /\ s[1] \in Digits THEN 1 + DigitRun(Tail(s)) ELSE 0

branchAB(line) ==
    LET rest == Drop(line, Len(ABPat))
        k    == DigitRun(rest)
        g1   == SubSeq(rest, 1, k)
        g2   == Drop(rest, k + 2)
        ok   == /\ PrefixMatches(line, ABPat)
                /\ Len(rest) >= k + 2
                /\ rest[k + 1] = " "
                /\ rest[k + 2] = "-"
                /\ AllIn(g2, Digits)
    IN  IF ok THEN <<line, g1, g2>> ELSE <<>>

\* ----------------------------------------------- strconv.ParseInt(s,10,64)
DigitVal(c) ==
    CASE c = "0" -> 0 [] c = "1" -> 1 [] c = "2" -> 2 [] c = "3" -> 3
      [] c = "4" -> 4 [] c = "5" -> 5 [] c = "6" -> 6 [] c = "7" -> 7
      [] c = "8" -> 8 [] c = "9" -> 9

RECURSIVE StripZeros(_)
StripZeros(s) ==
    IF s # <<>> /\ s[1] = "0" THEN StripZeros(Tail(s)) ELSE s

\* 1<<63 - 1, the largest int64, as a decimal numeral.
MaxInt64 == <<"9","2","2","3","3","7","2","0","3","6",
              "8","5","4","7","7","5","8","0","7">>

\* a and b are digit strings of the same length: a > b as numerals.
RECURSIVE NumeralGreater(_, _)
NumeralGreater(a, b) ==
    IF a = <<>> THEN FALSE
    ELSE IF a[1] # b[1] THEN DigitVal(a[1]) > DigitVal(b[1])
    ELSE NumeralGreater(Tail(a), Tail(b))

OutOfRange(s) ==
    LET n == StripZeros(s)
    IN  \/ Len(n) > Len(MaxInt64)
        \/ Len(n) = Len(MaxInt64) /\ NumeralGreater(n, MaxInt64)

RECURSIVE DecimalValue(_)
DecimalValue(s) ==
    IF s = <<>> THEN 0
    ELSE 10 * DecimalValue(SubSeq(s, 1, Len(s) - 1)) + DigitVal(s[Len(s)])

\* The pattern branchAB only hands digit strings (possibly empty) to
\* ParseInt, so the sign and base-prefix handling is not modelled.  The value
\* is computed for numerals that fit the model checker's integers.
ParseInt(s) ==
    IF s = <<>> \/ ~AllIn(s, Digits) THEN [v |-> 0, err |-> ErrABSyntax]
    ELSE IF OutOfRange(s) THEN [v |-> 0, err |-> ErrABRange]
    ELSE [v |-> DecimalValue(StripZeros(s)), err |-> NoErr]

\* ------------------------------------------------------------- Status
ZeroStatus ==
    [NumAdded |-> 0, NumDeleted |-> 0, NumUpdated |-> 0, NumRenamed |-> 0,
     NumConflicts |-> 0, NumUntracked |-> 0,
     CommitSHA1 |-> <<>>, LocalBranch |-> <<>>, RemoteBranch |-> <<>>,
     AheadCount |-> 0, BehindCount |-> 0,
     IsRebased |-> FALSE, IsInitial |-> FALSE, IsDetached |-> FALSE,
     Untracked |-> <<>>, Ignored |-> <<>>]

\* Result of parseHeader: the Status after the call and the returned error.
parseHeader(s, line) ==
    LET oid      == branchOID(line)
        head     == branchHEAD(line)
        upstream == branchUpstream(line)
        ab       == branchAB(line)
    IN  IF Len(oid) = 2 THEN
            [st  |-> IF oid[2] = Initial
                     THEN [s EXCEPT !.IsInitial = TRUE]
                     ELSE [s EXCEPT !.CommitSHA1 = oid[2]],
             err |-> NoErr]
        ELSE IF Len(head) = 2 THEN
            [st  |-> IF head[2] = Detached
                     THEN [s EXCEPT !.IsDetached = TRUE]
                     ELSE [s EXCEPT !.LocalBranch = head[2]],
             err |-> NoErr]
        ELSE IF Len(upstream) = 2 THEN
            [st |-> [s EXCEPT !.RemoteBranch = upstream[2]], err |-> NoErr]
        ELSE IF Len(ab) = 3 THEN
            LET a == ParseInt(ab[2])
                b == ParseInt(ab[3])
            IN  IF a.err # NoErr THEN [st |-> s, err |-> a.err]
                ELSE IF b.err # NoErr
                THEN [st |-> [s EXCEPT !.AheadCount = a.v], err |-> b.err]
                ELSE [st  |-> [s EXCEPT !.AheadCount = a.v,
                                        !.BehindCount = b.v],
                      err |-> NoErr]
        ELSE [st |-> s, err |-> NoErr]

\* ------------------------------------------------------- scanNilBytes
\* Index of the first NUL byte of data, 0 when there is none
\* (bytes.IndexByte(data, 0) + 1).
RECURSIVE IndexNul(_)
IndexNul(data) ==
    IF data = <<>> THEN 0
    ELSE IF data[1] = NUL THEN 1
    ELSE LET i == IndexNul(Tail(data)) IN IF i = 0 THEN 0 ELSE i + 1

\* scanNilBytes accepting an unterminated last record, as bufio.ScanLines
\* does with a last line that lacks its line feed.
scanNilBytesFinalToken(data, atEOF) ==
    LET i == IndexNul(data)
    IN  IF atEOF /\ Len(data) = 0
        THEN [advance |-> 0, hasToken |-> FALSE, token |-> <<>>, err |-> NoErr]
        ELSE IF i > 0
        THEN [advance |-> i, hasToken |-> TRUE,
              token |-> SubSeq(data, 1, i - 1), err |-> NoErr]
        ELSE IF atEOF
        THEN [advance |-> Len(data), hasToken |-> TRUE,
              token |-> data, err |-> NoErr]
        ELSE [advance |-> 0, hasToken |-> FALSE, token |-> <<>>, err |-> NoErr]

\* hasToken tells a returned token (possibly empty) from a nil token.
scanNilBytes(data, atEOF) ==
    LET i == IndexNul(data)
    IN  IF atEOF /\ Len(data) = 0
        THEN [advance |-> 0, hasToken |-> FALSE, token |-> <<>>, err |-> NoErr]
        ELSE IF i > 0
        THEN [advance |-> i, hasToken |-> TRUE,
              token |-> SubSeq(data, 1, i - 1), err |-> NoErr]
        ELSE IF atEOF
        THEN [advance |-> 0, hasToken |-> FALSE, token |-> <<>>, err |-> ErrNoNul]
        ELSE [advance |-> 0, hasToken |-> FALSE, token |-> <<>>, err |-> NoErr]

\* ------------------------------------------------------------ inputs
\* Records an input stream is assembled from: the header forms (well formed,
\* with an empty, non-digit or overflowing count, with another byte in place
\* of the '.', unknown), one record per entry kind, a '?' record too short
\* to carry a path, the empty record and an unknown kind.
RecordSet ==
    { HashBranch \o <<"o","i","d"," ","a","1">>,
      HashBranch \o <<"o","i","d"," ">> \o Initial,
      HashBranch \o <<"h","e","a","d"," ","m">>,
      HashBranch \o <<"h","e","a","d"," ">> \o Detached,
      HashBranch \o <<"u","p","s","t","r","e","a","m"," ","o","/","m">>,
      HashBranch \o <<"a","b"," ","+","1"," ","-","3">>,
      HashBranch \o <<"a","b"," ","+","0","2"," ","-">>,
      HashBranch \o <<"a","b"," ","+","1","x"," ","-","3">>,
      HashBranch \o <<"a","b"," ","+","9","2","2","3","3","7","2","0","3","6",
                      "8","5","4","7","7","5","8","0","8"," ","-","1">>,
      <<"#"," ","b","r","a","n","c","h","-","h","e","a","d"," ","z">>,
      <<"?"," ","a"," ","b">>,
      <<"?"," ">>,
      <<"1"," ","A","M"," ","f">>,
      <<"2"," ","R","."," ","f">>,
      <<"u"," ","U","U"," ","f">>,
      <<"!"," ","i">>,
      <<>>,
      <<"x">> }

\* In the records above Dot stands for the byte '.'.
Bytes(rec) == [i \in 1..Len(rec) |-> IF rec[i] = Dot THEN "." ELSE rec[i]]

\* What follows the last NUL of a stream: nothing, or an unterminated record.
Tails == { <<>>, <<"?"," ","t">> }

RECURSIVE Join(_)
Join(recs) ==
    IF recs = <<>> THEN <<>>
    ELSE Bytes(Head(recs)) \o <<NUL>> \o Join(Tail(recs))

Streams ==
    { Join(recs) \o t :
        recs \in UNION { [1..n -> RecordSet] : n \in 0..MaxRecords },
        t \in Tails }

\* -------------------------------------------------------------- state
VARIABLES
    stream,   \* every byte the io.Reader r delivers, fixed for one parse
    unread,   \* bytes of r not yet read by the scanner
    buf,      \* the scanner's unconsumed buffer s.buf[s.start:s.end]
    rdEOF,    \* the scanner has seen io.EOF from r (s.err == io.EOF)
    line,     \* scan.Text() of the record being dispatched
    st,       \* the receiver *Status
    err,      \* parsePorcelain's local err
    scanErr,  \* scan.Err()
    ret,      \* the error parsePorcelain returned
    pc        \* "scan", "case", "finish", "done"

vars == <<stream, unread, buf, rdEOF, line, st, err, scanErr, ret, pc>>

Init ==
    /\ stream \in Streams
    /\ unread = stream
    /\ buf = <<>>
    /\ rdEOF = FALSE
    /\ line = <<>>
    /\ st = ZeroStatus
    /\ err = NoErr
    /\ scanErr = NoErr
    /\ ret = NoErr
    /\ pc = "scan"

\* --------------------------------------------------- bufio.Scanner.Scan
\* Scan calls the split function when the buffer holds data or the reader is
\* exhausted, and reads more when the split function asks for it.
SplitResult == scanNilBytes(buf, rdEOF)

NeedsData ==
    \/ buf = <<>>
    \/ (SplitResult.err = NoErr /\ ~SplitResult.hasToken)

ReadData ==
    /\ pc = "scan" /\ ~rdEOF /\ NeedsData
    /\ unread # <<>>
    /\ buf' = buf \o unread
    /\ unread' = <<>>
    /\ UNCHANGED <<stream, rdEOF, line, st, err, scanErr, ret, pc>>

ReadEOF ==
    /\ pc = "scan" /\ ~rdEOF /\ NeedsData
    /\ unread = <<>>
    /\ rdEOF' = TRUE
    /\ UNCHANGED <<stream, unread, buf, line, st, err, scanErr, ret, pc>>

ScanToken ==
    /\ pc = "scan" /\ (buf # <<>> \/ rdEOF)
    /\ SplitResult.err = NoErr /\ SplitResult.hasToken
    /\ buf' = Drop(buf, SplitResult.advance)
    /\ line' = SplitResult.token
    /\ pc' = "case"
    /\ UNCHANGED <<stream, unread, rdEOF, st, err, scanErr, ret>>

ScanFail ==
    /\ pc = "scan" /\ (buf # <<>> \/ rdEOF)
    /\ SplitResult.err # NoErr
    /\ scanErr' = SplitResult.err
    /\ pc' = "finish"
    /\ UNCHANGED <<stream, unread, buf, rdEOF, line, st, err, ret>>

ScanEnd ==
    /\ pc = "scan" /\ rdEOF
    /\ SplitResult.err = NoErr /\ ~SplitResult.hasToken
    /\ buf' = <<>>
    /\ pc' = "finish"
    /\ UNCHANGED <<stream, unread, rdEOF, line, st, err, scanErr, ret>>

\* ------------------------------------------------ parsePorcelain's loop
\* utf8.DecodeRuneInString(line): the records of the model are ASCII.
FirstRune(l) == IF l = <<>> THEN "RuneError" ELSE l[1]

\* The '?' case without its length guard: a record too short to carry a
\* path appends an empty one.
caseUntrackedNoGuard(s, l) ==
    [s EXCEPT !.Untracked = Append(@, Drop(l, 2))]

\* case '?': if len(line) >= 3 { st.Untracked = append(st.Untracked, line[2:]) }
caseUntracked(s, l) ==
    IF Len(l) >= 3 THEN [s EXCEPT !.Untracked = Append(@, Drop(l, 2))] ELSE s

\* The loop without its error check: decoding goes on after a failure.
ReturnsErrNever(e) == FALSE

\* if err != nil { return err }
ReturnsErr(e) == e # NoErr

\* The end of one loop iteration, e being err after the switch.
EndOfIteration(e) ==
    /\ err' = e
    /\ IF ReturnsErr(e)
       THEN ret' = e /\ pc' = "done"
       ELSE ret' = ret /\ pc' = "scan"
    /\ UNCHANGED <<stream, unread, buf, rdEOF, line, scanErr>>

CaseHeader ==
    /\ pc = "case" /\ FirstRune(line) = "#"
    /\ st' = parseHeader(st, line).st
    /\ EndOfIteration(parseHeader(st, line).err)

CaseOrdinary ==
    /\ pc = "case" /\ FirstRune(line) = "1"
    /\ st' = st
    /\ EndOfIteration(err)

CaseRenamed ==
    /\ pc = "case" /\ FirstRune(line) = "2"
    /\ st' = st
    /\ EndOfIteration(err)

CaseUnmerged ==
    /\ pc = "case" /\ FirstRune(line) = "u"
    /\ st' = st
    /\ EndOfIteration(err)

CaseUntracked ==
    /\ pc = "case" /\ FirstRune(line) = "?"
    /\ st' = caseUntracked(st, line)
    /\ EndOfIteration(err)

CaseIgnored ==
    /\ pc = "case" /\ FirstRune(line) = "!"
    /\ st' = st
    /\ EndOfIteration(err)

CaseDefault ==
    /\ pc = "case" /\ FirstRune(line) \notin {"#", "1", "2", "u", "?", "!"}
    /\ st' = st
    /\ EndOfIteration(err)

\* if err := scan.Err(); err != nil { return err }; return nil
Finish ==
    /\ pc = "finish"
    /\ ret' = scanErr
    /\ pc' = "done"
    /\ UNCHANGED <<stream, unread, buf, rdEOF, line, st, err, scanErr>>

Next ==
    \/ ReadData
    \/ ReadEOF
    \/ ScanToken
    \/ ScanFail
    \/ ScanEnd
    \/ CaseHeader
    \/ CaseOrdinary
    \/ CaseRenamed
    \/ CaseUnmerged
    \/ CaseUntracked
    \/ CaseIgnored
    \/ CaseDefault
    \/ Finish

Spec == Init /\ [][Next]_vars

\* =====================================================================
\* Properties.  The operators below read the input stream on their own, not
\* through the operators that model the code.
\* =====================================================================
FirstNul(s) ==
    IF \E i \in 1..Len(s) : s[i] = NUL
    THEN CHOOSE i \in 1..Len(s) : s[i] = NUL /\ \A j \in 1..(i - 1) : s[j] # NUL
    ELSE 0

\* The NUL-terminated records of s, in order; an unterminated rest is left out.
RECURSIVE SplitNul(_)
SplitNul(s) ==
    IF FirstNul(s) = 0 THEN <<>>
    ELSE <<SubSeq(s, 1, FirstNul(s) - 1)>> \o SplitNul(Drop(s, FirstNul(s)))

\* End of input is reached with data after the last NUL delimiter.
Unterminated(s) == s # <<>> /\ s[Len(s)] # NUL

\* Number of bytes of the stream the scanner has handed out as records.
Consumed == Len(stream) - Len(unread) - Len(buf)

\* The records that have gone through the switch of parsePorcelain.
Dispatched ==
    LET scanned == SplitNul(SubSeq(stream, 1, Consumed))
    IN  IF pc = "case" THEN SubSeq(scanned, 1, Len(scanned) - 1) ELSE scanned

StartsWith(l, lit) == Len(l) >= Len(lit) /\ SubSeq(l, 1, Len(lit)) = lit

Kind(l) == IF l = <<>> THEN "" ELSE l[1]

RECURSIVE CountKind(_, _)
CountKind(recs, k) ==
    IF recs = <<>> THEN 0
    ELSE (IF Kind(Head(recs)) = k THEN 1 ELSE 0) + CountKind(Tail(recs), k)

\* The error decoding rec returns, whatever the Status.
DecodeErr(rec) ==
    IF Kind(rec) = "#" THEN parseHeader(ZeroStatus, rec).err ELSE NoErr

RECURSIVE FirstDecodeErr(_)
FirstDecodeErr(recs) ==
    IF recs = <<>> THEN NoErr
    ELSE IF DecodeErr(Head(recs)) # NoErr THEN DecodeErr(Head(recs))
    ELSE FirstDecodeErr(Tail(recs))

Fields == DOMAIN ZeroStatus

\* ------------------------------------------------------------------ C1
\* C1 (as stated): whenever the stream ends with data after its last NUL,
\* parsePorcelain returns the tokenizer's framing error.
C1_Original ==
    (pc = "done" /\ Unterminated(stream)) => ret = ErrNoNul

\* C1 (amended): whenever the stream ends with data after its last NUL,
\* parsePorcelain fails; it returns the tokenizer's framing error when every
\* complete record decodes, and otherwise the error of the first record that
\* fails to decode.
C1_Amended ==
    (pc = "done" /\ Unterminated(stream)) =>
        /\ ret # NoErr
        /\ ret = IF FirstDecodeErr(SplitNul(stream)) # NoErr
                 THEN FirstDecodeErr(SplitNul(stream))
                 ELSE ErrNoNul

C1_Witness ==
    /\ pc = "done" /\ Unterminated(stream)
    /\ Len(SplitNul(stream)) = 2
    /\ ret = ErrNoNul

\* ------------------------------------------------------------------ C2
\* A record fails to decode: the error is returned at once.
ReturnsImmediately ==
    (pc = "case" /\ err' # NoErr) => (pc' = "done" /\ ret' = err')

\* Once a record has failed, no record is scanned or decoded any more.
NothingAfterFailure ==
    err # NoErr => (st' = st /\ line' = line /\ buf' = buf)

\* The fields in F that earlier records have set survive the failing record.
KeepsEarlier(F) ==
    (pc = "case" /\ err' # NoErr) =>
        \A f \in F : st[f] # ZeroStatus[f] => st'[f] = st[f]

\* C2 (as stated): a decode error is returned immediately, no later record
\* is decoded, and every field set by the earlier records keeps its value.
C2_Original ==
    [][ReturnsImmediately /\ NothingAfterFailure /\ KeepsEarlier(Fields)]_vars

\* C2 (amended): a decode error is returned immediately, no later record is
\* decoded, and every field set by the earlier records keeps its value,
\* except AheadCount, which the failing branch.ab header itself overwrites
\* when its ahead count parses and its behind count does not.
C2_Amended ==
    [][/\ ReturnsImmediately
       /\ NothingAfterFailure
       /\ KeepsEarlier(Fields \ {"AheadCount"})]_vars

\* A failed parse with a field set before the failing header and an
\* untracked record left undecoded behind it.
C2_Witness ==
    /\ pc = "done" /\ ret = ErrABSyntax
    /\ st.RemoteBranch # <<>>
    /\ st.AheadCount = 2
    /\ buf # <<>> /\ buf[1] = "?" /\ Len(buf) >= 4
    /\ st.Untracked = <<>>

\* ------------------------------------------------------------------ C3
ABLit == <<"#"," ","b","r","a","n","c","h",".","a","b"," ","+">>

ABRest(l) == Drop(l, Len(ABLit))

\* "# branch.ab +N -M": the literal prefix, then N, " -" and M.
IsABHeader(l) ==
    /\ StartsWith(l, ABLit)
    /\ \E k \in 1..(Len(ABRest(l)) - 1) :
          ABRest(l)[k] = " " /\ ABRest(l)[k + 1] = "-"

SepAt(l) ==
    CHOOSE k \in 1..(Len(ABRest(l)) - 1) :
        /\ ABRest(l)[k] = " " /\ ABRest(l)[k + 1] = "-"
        /\ \A j \in 1..(k - 1) : ~(ABRest(l)[j] = " " /\ ABRest(l)[j + 1] = "-")

AheadField(l) == SubSeq(ABRest(l), 1, SepAt(l) - 1)

BehindField(l) == Drop(ABRest(l), SepAt(l) + 1)

Numeric(x) == x # <<>> /\ AllIn(x, Digits) /\ ~OutOfRange(x)

\* C3: decoding a branch.ab header with numeric N and M sets AheadCount = N
\* and BehindCount = M; with a non-numeric N or M (non-digit, empty,
\* overflowing) it fails the parse.
C3_Claim ==
    [][(pc = "case" /\ IsABHeader(line)) =>
          IF Numeric(AheadField(line)) /\ Numeric(BehindField(line))
          THEN /\ err' = NoErr
               /\ st'.AheadCount = DecimalValue(AheadField(line))
               /\ st'.BehindCount = DecimalValue(BehindField(line))
          ELSE err' # NoErr]_vars

\* ------------------------------------------------------------------ C4
\* rec without its first two bytes (the '?' marker and the separating space).
ExpectedPath(rec) == [i \in 1..(Len(rec) - 2) |-> rec[i + 2]]

\* One path per '?' record of at least minLen bytes, in order.
RECURSIVE PathsOf(_, _)
PathsOf(recs, minLen) ==
    IF recs = <<>> THEN <<>>
    ELSE (IF Kind(Head(recs)) = "?" /\ Len(Head(recs)) >= minLen
          THEN <<ExpectedPath(Head(recs))>> ELSE <<>>)
         \o PathsOf(Tail(recs), minLen)

C5_Claim ==
    st.NumUntracked = Len(st.Untracked)

\* ------------------------------------------------------------------ C6
\* C6: after a successful parse NumConflicts equals the number of 'u'
\* records of the stream.
C6_Claim ==
    (pc = "done" /\ ret = NoErr) =>
        st.NumConflicts = CountKind(SplitNul(stream), "u")

\* ------------------------------------------------------------------ C7
\* Number of the two XY positions of a '1' or '2' record holding code c.
XYCount(l, c) ==
    (IF l[3] = c THEN 1 ELSE 0) + (IF l[4] = c THEN 1 ELSE 0)

\* C7: decoding a '1' or '2' record adds to NumAdded, NumDeleted, NumUpdated
\* and NumRenamed the number of XY positions holding A, D, M and R.
C7_Claim ==
    [][(pc = "case" /\ Kind(line) \in {"1", "2"} /\ Len(line) >= 4) =>
          /\ st'.NumAdded = st.NumAdded + XYCount(line, "A")
          /\ st'.NumDeleted = st.NumDeleted + XYCount(line, "D")
          /\ st'.NumUpdated = st.NumUpdated + XYCount(line, "M")
          /\ st'.NumRenamed = st.NumRenamed + XYCount(line, "R")]_vars

\* ------------------------------------------------------------------ C8
\* C8: in every state IsInitial implies an empty CommitSHA1.
C8_Claim ==
    st.IsInitial => st.CommitSHA1 = <<>>

\* ------------------------------------------------------------------ C9
\* C9: after a successful parse IsDetached and a non-empty LocalBranch do
\* not hold together.
C9_Claim ==
    (pc = "done" /\ ret = NoErr) => ~(st.IsDetached /\ st.LocalBranch # <<>>)

\* ------------------------------------------------------------------ C10
HeaderLits ==
    { <<"#"," ","b","r","a","n","c","h",".","o","i","d"," ">>,
      <<"#"," ","b","r","a","n","c","h",".","h","e","a","d"," ">>,
      <<"#"," ","b","r","a","n","c","h",".","u","p","s","t","r","e","a","m"," ">>,
      <<"#"," ","b","r","a","n","c","h",".","a","b"," ">> }

\* A record of no known kind, or a '#' record that starts like none of the
\* four headers.
Unrecognized(l) ==
    \/ Kind(l) \notin {"#", "1", "2", "u", "?", "!"}
    \/ (Kind(l) = "#" /\ \A lit \in HeaderLits : ~StartsWith(l, lit))

\* C10: decoding an unrecognized record gives no error, changes no field of
\* Status, and the loop goes on to the next record.
C10_Claim ==
    [][(pc = "case" /\ Unrecognized(line)) =>
          (st' = st /\ err' = NoErr /\ pc' = "scan")]_vars

====
